---- MODULE Spec2Model ----
(***************************************************************************)
(* A model of skills/planner/scripts/planner.py: the two step-to-guidance  *)
(* selectors (planning and review) and main(), which validates the         *)
(* arguments, calls one selector and prints the report.                    *)
(*                                                                         *)
(* Strings are kept as strings: an f-string is the concatenation of its    *)
(* literal parts and ToString of its integer fields, and each print call   *)
(* is one element of stdout.  The source holds seven non-ASCII characters  *)
(* inside action lines (an em dash on lines 28, 218, 222, 226, 230 and an  *)
(* arrow on lines 281, 450); they are written "--" and "->" here.          *)
(***************************************************************************)
EXTENDS Integers, Sequences, FiniteSets, TLC

\* Largest --step-number and --total-steps the model passes on the command line.
MaxStep == 7
MaxTotal == 7

\* Largest number of runs a caller that keeps the earlier reports makes.
MaxRuns == 3

\* Largest number of times the review caller restarts the review at step 1.
MaxRestarts == 3

\* The --total-steps of the review commands printed on lines 104 and 470.
ReviewTotalSteps == 4

\* Values of --phase accepted by argparse (choices=["planning", "review"]).
Phases == {"planning", "review"}

\* Values passed as --step-number / --total-steps: the integers below 1 that
\* main() rejects, and the valid ones up to the bounds.
StepNumbers == (-1)..MaxStep
TotalSteps == (-1)..MaxTotal

\* Values passed as --thoughts: plain text, the empty string, and text with
\* embedded whitespace, quotes, a backslash and a newline.
Thoughts == {"Design auth system", "", "  a\tb \"q\" \\ <x>\nline 2  "}

VARIABLES args, pc, guidance, selector_calls, stdout, stderr, exit_status,
          transcript

vars == <<args, pc, guidance, selector_calls, stdout, stderr, exit_status,
          transcript>>

----------------------------------------------------------------------------
\* String helpers used to read the texts the program produces.

StartsWith(str, prefix) ==
    /\ Len(str) >= Len(prefix)
    /\ SubSeq(str, 1, Len(prefix)) = prefix

Contains(str, sub) ==
    \E i \in 1..(Len(str) - Len(sub) + 1) : SubSeq(str, i, i + Len(sub) - 1) = sub

\* Python's  s * n  on a string.
RECURSIVE Repeat(_, _)
Repeat(s, n) ==
    IF n <= 0 THEN ""
    ELSE LET half == Repeat(s, n \div 2)
         IN  half \o half \o (IF n % 2 = 1 THEN s ELSE "")

----------------------------------------------------------------------------
\* The dicts the two selectors return, one per branch.

\* get_planning_step_guidance, lines 26-113: the dict returned by this branch.
planning_final_verification_actions ==
    << "FINAL VERIFICATION -- complete each section before writing.",
       "",
       "<planning_context_verification>",
       "TW and QR consume this section VERBATIM. Quality here =",
       "quality of annotations and risk detection downstream.",
       "",
       "Decision Log:",
       "  - What major architectural choice did you make?",
       "  - What is the multi-step reasoning chain for that choice?",
       "  - What micro-decisions (timeouts, data structures) need",
       "    rationale for TW to document?",
       "",
       "Rejected Alternatives:",
       "  - What approach did you NOT take?",
       "  - What concrete reason ruled it out?",
       "",
       "Known Risks:",
       "  - What failure modes exist?",
       "  - What mitigation or acceptance rationale exists for each?",
       "</planning_context_verification>",
       "",
       "<invisible_knowledge_verification>",
       "This section sources README.md content. Skip if trivial.",
       "",
       "  - What is the component relationship diagram?",
       "  - What is the data flow through the system?",
       "  - Why is the module organization structured this way?",
       "  - What invariants must be maintained?",
       "  - What tradeoffs were made (and their costs/benefits)?",
       "</invisible_knowledge_verification>",
       "",
       "<milestone_verification>",
       "For EACH milestone, verify:",
       "  - File paths: exact (src/auth/handler.py) not vague?",
       "  - Requirements: specific behaviors, not 'handle X'?",
       "  - Acceptance criteria: testable pass/fail assertions?",
       "  - Code changes: diff format for non-trivial logic?",
       "  - Uncertainty flags: added where applicable?",
       "  - Contracts: defined for PUBLIC APIs and complex logic?",
       "</milestone_verification>",
       "",
       "<documentation_milestone_verification>",
       "  - Does a Documentation milestone exist?",
       "  - Does CLAUDE.md use TABULAR INDEX format (not prose)?",
       "  - Is README.md included only if Invisible Knowledge has",
       "    content?",
       "</documentation_milestone_verification>",
       "",
       "<comment_hygiene_verification>",
       "Comments in code snippets will be transcribed VERBATIM to code.",
       "Write in TIMELESS PRESENT -- describe what the code IS, not what",
       "you are changing.",
       "",
       "CONTAMINATED: '// Added mutex to fix race condition'",
       "CLEAN: '// Mutex serializes cache access from concurrent requests'",
       "",
       "CONTAMINATED: '// Replaces per-tag logging with summary'",
       "CLEAN: '// Single summary line; per-tag avoids 1500+ lines'",
       "",
       "CONTAMINATED: '// After the retry loop' (location directive)",
       "CLEAN: (delete -- diff context encodes location)",
       "",
       "TW will review, but starting clean reduces rework.",
       "</comment_hygiene_verification>" >>

planning_final_verification ==
    [actions |-> planning_final_verification_actions,
     next |-> "PLANNING PHASE COMPLETE.\n\n"
              \o "1. Write plan to file using the format from SKILL.md\n\n"
              \o "============================================\n"
              \o ">>> ACTION REQUIRED: INVOKE REVIEW PHASE <<<\n"
              \o "============================================\n\n"
              \o "SKIPPING REVIEW MEANS:\n"
              \o "  - Developer has NO prepared comments to transcribe\n"
              \o "  - Code ships without WHY documentation\n"
              \o "  - QR findings surface during execution, not before\n\n"
              \o "2. Run this command to start review:\n\n"
              \o "   python3 planner.py --phase review --step-number 1 --total-steps 4 \\\n"
              \o "     --thoughts \"Plan written to [path]\"\n\n"
              \o "Review phase:\n"
              \o "  Step 1: @agent-technical-writer annotates code snippets\n"
              \o "  Step 2: @agent-contract-specifier validates/defines contracts\n"
              \o "  Step 3: @agent-test-specifier defines test specifications\n"
              \o "  Step 4: @agent-quality-reviewer validates the plan\n"
              \o "  Then: Ready for /plan-execution"]

\* get_planning_step_guidance, lines 116-147: the dict returned by this branch.
planning_step_1_actions ==
    << "You are an expert architect. Proceed with confidence.",
       "",
       "PRECONDITION: Confirm plan file path before proceeding.",
       "",
       "<step_1_checklist>",
       "Complete ALL items before invoking step 2:",
       "",
       "CONTEXT (understand before proposing):",
       "  - [ ] What code/systems does this touch?",
       "  - [ ] What patterns does the codebase follow?",
       "  - [ ] What prior decisions constrain this work?",
       "",
       "SCOPE (define boundaries):",
       "  - [ ] What exactly must be accomplished?",
       "  - [ ] What is OUT of scope?",
       "",
       "APPROACHES (consider alternatives):",
       "  - [ ] 2-3 options with Advantage/Disadvantage for each",
       "",
       "CONSTRAINTS (list by category):",
       "  - [ ] Technical: language, APIs, existing patterns",
       "  - [ ] Organizational: timeline, expertise, approvals",
       "  - [ ] Dependencies: external services, data formats",
       "",
       "SUCCESS (observable outcomes):",
       "  - [ ] Defined testable acceptance criteria",
       "</step_1_checklist>" >>

planning_step_1(next_step) ==
    [actions |-> planning_step_1_actions,
     next |-> "Invoke step "
              \o ToString(next_step)
              \o " with your context analysis and approach options."]

\* get_planning_step_guidance, lines 150-190: the dict returned by this branch.
planning_step_2_actions ==
    << "<step_2_evaluate_first>",
       "BEFORE deciding, evaluate each approach from step 1:",
       "  | Approach | P(success) | Failure mode | Backtrack cost |",
       "",
       "STOP CHECK: If ALL approaches show LOW probability or HIGH",
       "backtrack cost, STOP. Request clarification from user.",
       "</step_2_evaluate_first>",
       "",
       "<step_2_decide>",
       "Select approach. Record in Decision Log with MULTI-STEP chain:",
       "",
       "  INSUFFICIENT: 'Polling | Webhooks are unreliable'",
       "  SUFFICIENT:   'Polling | 30% webhook failure in testing",
       "                 -> would need fallback anyway -> simpler primary'",
       "",
       "Include BOTH architectural AND micro-decisions (timeouts, etc).",
       "</step_2_decide>",
       "",
       "<step_2_rejected>",
       "Document rejected alternatives with CONCRETE reasons.",
       "TW uses this for 'why not X' code comments.",
       "</step_2_rejected>",
       "",
       "<step_2_architecture>",
       "Capture in ASCII diagrams:",
       "  - Component relationships",
       "  - Data flow",
       "These go in Invisible Knowledge for README.md.",
       "</step_2_architecture>",
       "",
       "<step_2_milestones>",
       "Break into deployable increments:",
       "  - Each milestone: independently testable",
       "  - Scope: 1-3 files per milestone",
       "  - Map dependencies (circular = design problem)",
       "</step_2_milestones>" >>

planning_step_2(next_step) ==
    [actions |-> planning_step_2_actions,
     next |-> "Invoke step "
              \o ToString(next_step)
              \o " with your chosen approach (include state evaluation summary), architecture, and milestone structure."]

\* get_planning_step_guidance, lines 193-252: the dict returned by this branch.
planning_step_3_actions ==
    << "<step_3_risks>",
       "Document risks NOW. QR excludes documented risks from findings.",
       "Undocumented risks WILL be flagged.",
       "",
       "For each risk:",
       "  | Risk | Mitigation or 'Accepted: [reason]' |",
       "</step_3_risks>",
       "",
       "<step_3_uncertainty_flags>",
       "For EACH milestone, check these conditions -> add flag:",
       "",
       "  | Condition                          | Flag                    |",
       "  |------------------------------------|-------------------------|",
       "  | Multiple valid implementations     | needs TW rationale      |",
       "  | Depends on external system         | needs error review      |",
       "  | First use of pattern in codebase   | needs conformance check |",
       "",
       "Add to milestone: **Flags**: [list]",
       "</step_3_uncertainty_flags>",
       "",
       "<step_3_refine_milestones>",
       "Verify EACH milestone has:",
       "",
       "FILES -- exact paths:",
       "  CORRECT: src/auth/handler.py",
       "  WRONG:   'auth files'",
       "",
       "REQUIREMENTS -- specific behaviors:",
       "  CORRECT: 'retry 3x with exponential backoff, max 30s'",
       "  WRONG:   'handle errors'",
       "",
       "ACCEPTANCE CRITERIA -- testable pass/fail:",
       "  CORRECT: 'Returns 429 after 3 failed attempts within 60s'",
       "  WRONG:   'Handles errors correctly'",
       "",
       "CODE CHANGES -- diff format for non-trivial logic.",
       "</step_3_refine_milestones>",
       "",
       "<step_3_validate>",
       "Cross-check: Does the plan address ALL original requirements?",
       "",
       "CONTRACT CONSIDERATION:",
       "  Do any components need formal contracts?",
       "  - PUBLIC APIs or external interfaces?",
       "  - Complex validation logic with multiple approaches?",
       "  - State machines or stateful components?",
       "  - Error-prone operations (I/O, concurrency, parsing)?",
       "  - Security-sensitive code (auth, crypto, validation)?",
       "",
       "If YES to any: consider adding contract specification step before final verification.",
       "</step_3_validate>" >>

planning_step_3 ==
    [actions |-> planning_step_3_actions,
     next |-> "Options:\n"
              \o "  - If contracts needed: Invoke step 4 (adjust total-steps) with contract needs\n"
              \o "  - If no contracts: Invoke final verification step (current total-steps)"]

\* get_planning_step_guidance, lines 255-287: the dict returned by this branch.
planning_step_4_actions ==
    << "<contract_specification_step>",
       "Define formal contracts for complex components identified in step 3.",
       "",
       "COMPONENTS NEEDING CONTRACTS:",
       "  Review each milestone for:",
       "  - PUBLIC APIs (user-facing functions)",
       "  - Complex validation (multiple valid approaches)",
       "  - State machines (state transitions)",
       "  - Error-prone logic (I/O, concurrency, parsing)",
       "  - Security-sensitive (authentication, authorization, cryptography)",
       "",
       "FOR EACH COMPONENT:",
       "  Define inline in milestone specification:",
       "  ",
       "  **Contracts**:",
       "  ",
       "  ### Contract: function_name",
       "  **Preconditions**: requires caller to provide [specific conditions]",
       "  **Postconditions**: ensures function returns/guarantees [specific outcomes]",
       "  **Boundary Conditions**: behavior for empty, null, zero, max [concrete values]",
       "  **Error Behaviors**: raises/returns [specific error types and conditions]",
       "",
       "TESTABILITY CHECK:",
       "  For each condition: What test would verify this?",
       "  If you can't describe a concrete test -> rewrite the condition.",
       "",
       "See @agent-contract-specifier documentation for patterns and examples.",
       "</contract_specification_step>" >>

planning_step_4(next_step) ==
    [actions |-> planning_step_4_actions,
     next |-> "Invoke step "
              \o ToString(next_step)
              \o " with contracts defined, ready for final verification."]

\* get_planning_step_guidance, lines 291-325: the dict returned by this branch.
planning_steps_5_plus_actions ==
    << "<backtrack_check>",
       "BEFORE proceeding, verify no dead ends:",
       "  - Has new information invalidated a prior decision?",
       "  - Is a milestone now impossible given discovered constraints?",
       "  - Are you adding complexity to work around a fundamental issue?",
       "",
       "If YES to any: invoke earlier step with --thoughts explaining change.",
       "</backtrack_check>",
       "",
       "<gap_analysis>",
       "Review current plan state. What's missing?",
       "  - Any milestone without exact file paths?",
       "  - Any acceptance criteria not testable pass/fail?",
       "  - Any non-trivial logic without diff-format code?",
       "  - Any milestone missing uncertainty flags where applicable?",
       "</gap_analysis>",
       "",
       "<planning_context_check>",
       "  - Decision Log: Every major choice has multi-step reasoning?",
       "  - Rejected Alternatives: At least one per major decision?",
       "  - Known Risks: All failure modes identified with mitigations?",
       "</planning_context_check>",
       "",
       "<developer_walkthrough>",
       "Walk through the plan as if you were Developer:",
       "  - Can you implement each milestone from the spec alone?",
       "  - Are requirements specific enough to avoid interpretation?",
       "",
       "If gaps remain, address them. If complete, reduce total_steps.",
       "</developer_walkthrough>" >>

planning_steps_5_plus(next_step, remaining) ==
    [actions |-> planning_steps_5_plus_actions,
     next |-> "Invoke step "
              \o ToString(next_step)
              \o ". "
              \o ToString(remaining)
              \o " step(s) remaining until completion. (Or invoke earlier step if backtracking.)"]

\* get_review_step_guidance, lines 334-361: the dict returned by this branch.
review_step_1_actions ==
    << "<review_step_1_delegate_tw>",
       "DELEGATE to @agent-technical-writer:",
       "",
       "  <delegation>",
       "    <agent>@agent-technical-writer</agent>",
       "    <mode>plan-annotation</mode>",
       "    <plan_source>[path to plan file]</plan_source>",
       "    <task>",
       "      1. Read ## Planning Context section FIRST",
       "      2. Prioritize annotation by uncertainty (HIGH/MEDIUM/LOW)",
       "      3. Add WHY comments to code snippets from Decision Log",
       "      4. Enrich plan prose with rationale",
       "      5. Add documentation milestone if missing",
       "      6. FLAG any non-obvious logic lacking rationale",
       "    </task>",
       "  </delegation>",
       "",
       "Wait for @agent-technical-writer to complete.",
       "</review_step_1_delegate_tw>" >>

review_step_1(next_step) ==
    [actions |-> review_step_1_actions,
     next |-> "After TW completes, invoke step "
              \o ToString(next_step)
              \o ":\n"
              \o "   python3 planner.py --phase review --step-number 2 --total-steps 3 --thoughts \"TW annotation complete, [summary of changes]\""]

\* get_review_step_guidance, lines 364-402: the dict returned by this branch.
review_step_2_actions ==
    << "<review_step_2_delegate_contract_specifier>",
       "DELEGATE to @agent-contract-specifier:",
       "",
       "  <delegation>",
       "    <agent>@agent-contract-specifier</agent>",
       "    <mode>plan-analysis</mode>",
       "    <plan_source>[path to plan file]</plan_source>",
       "    <task>",
       "      Read plan and determine contract coverage scenario:",
       "",
       "      SCENARIO A (contracts exist in plan - defined in planning step 4):",
       "        1. Validate existing contracts are testable (RULE 0)",
       "        2. Check boundary condition coverage (empty, null, max, zero)",
       "        3. Identify gaps (missing preconditions, vague postconditions)",
       "        4. Enhance contracts where needed",
       "        5. Return validation report",
       "",
       "      SCENARIO B (no contracts or incomplete - planning step 4 was skipped):",
       "        1. Analyze plan and identify components needing contracts",
       "        2. Categorize by priority (HIGH/MEDIUM/LOW)",
       "        3. Define contracts for HIGH priority components",
       "        4. Add contracts to plan file (inline in milestones)",
       "        5. Flag MEDIUM priority for consideration",
       "",
       "      Contract Specifier will determine which scenario applies.",
       "    </task>",
       "  </delegation>",
       "",
       "Wait for @agent-contract-specifier to complete.",
       "</review_step_2_delegate_contract_specifier>" >>

review_step_2(next_step) ==
    [actions |-> review_step_2_actions,
     next |-> "After contract-specifier completes, invoke step "
              \o ToString(next_step)
              \o ":\n"
              \o "   python3 planner.py --phase review --step-number 3 --total-steps 4 --thoughts \"Contracts validated/defined, [summary]\""]

\* get_review_step_guidance, lines 405-433: the dict returned by this branch.
review_step_3_actions ==
    << "<review_step_3_delegate_test_specifier>",
       "DELEGATE to @agent-test-specifier:",
       "",
       "  <delegation>",
       "    <agent>@agent-test-specifier</agent>",
       "    <mode>plan-analysis</mode>",
       "    <plan_source>[path to plan file]</plan_source>",
       "    <task>",
       "      1. Analyze the plan and contracts to determine test strategies",
       "      2. Define unit tests for function-level behavior verification",
       "      3. Define integration tests for component interactions",
       "      4. Define property-based tests for invariants (when applicable)",
       "      5. Identify edge cases and boundary conditions from contracts",
       "      6. Specify coverage strategy (which test types verify which behaviors)",
       "      7. Add test specifications to plan file in each milestone's Test Specification section",
       "    </task>",
       "  </delegation>",
       "",
       "Wait for @agent-test-specifier to complete.",
       "</review_step_3_delegate_test_specifier>" >>

review_step_3(next_step) ==
    [actions |-> review_step_3_actions,
     next |-> "After test-specifier completes, invoke step "
              \o ToString(next_step)
              \o ":\n"
              \o "   python3 planner.py --phase review --step-number 4 --total-steps 4 --thoughts \"Test specifications defined, [summary]\""]

\* get_review_step_guidance, lines 436-473: the dict returned by this branch.
review_step_4_actions ==
    << "<review_step_4_delegate_qr>",
       "DELEGATE to @agent-quality-reviewer:",
       "",
       "  <delegation>",
       "    <agent>@agent-quality-reviewer</agent>",
       "    <mode>plan-review</mode>",
       "    <plan_source>[path to plan file]</plan_source>",
       "    <task>",
       "      1. Read ## Planning Context (constraints, known risks)",
       "      2. Write out CONTEXT FILTER before reviewing milestones",
       "      3. Apply RULE 0 (production reliability) with open questions",
       "      4. Apply RULE 1 (project conformance)",
       "      5. Check for contract circumvention (validate precondition -> return default pattern)",
       "      6. Verify contracts are testable and complete",
       "      7. Verify test specifications cover all contract conditions",
       "      8. Check anticipated structural issues",
       "      9. Verify TW annotations pass actionability test",
       "      10. Accept risks documented in Known Risks as acknowledged",
       "      11. Pay extra attention to milestones with uncertainty flags",
       "    </task>",
       "    <expected_output>",
       "      Verdict: PASS | PASS_WITH_CONCERNS | NEEDS_CHANGES",
       "    </expected_output>",
       "  </delegation>",
       "",
       "Wait for @agent-quality-reviewer verdict.",
       "</review_step_4_delegate_qr>" >>

review_step_4 ==
    [actions |-> review_step_4_actions,
     next |-> "After QR returns verdict:\n"
              \o "  - PASS or PASS_WITH_CONCERNS: Invoke step 5 to complete review\n"
              \o "  - NEEDS_CHANGES: Address issues in plan, then restart review from step 1:\n"
              \o "    python3 planner.py --phase review --step-number 1 --total-steps 4 \\\n"
              \o "      --thoughts \"Addressed QR feedback: [summary of changes]\""]

\* get_review_step_guidance, lines 476-496: the dict returned by this branch.
review_complete_actions ==
    << "<review_complete_verification>",
       "Confirm before proceeding to execution:",
       "  - TW has annotated code snippets with WHY comments?",
       "  - TW has enriched plan prose with rationale?",
       "  - TW flagged any gaps in Planning Context rationale?",
       "  - Contracts defined for PUBLIC APIs and complex components?",
       "  - Contracts are testable (verified by contract-specifier)?",
       "  - Test specifications defined for all non-trivial milestones?",
       "  - Test specifications cover all contract conditions?",
       "  - QR verdict is PASS or PASS_WITH_CONCERNS?",
       "  - Any concerns from QR are documented or addressed?",
       "</review_complete_verification>" >>

review_complete ==
    [actions |-> review_complete_actions,
     next |-> "PLAN APPROVED.\n\n"
              \o "Ready for implementation via /plan-execution command.\n"
              \o "Pass the plan file path as argument."]

\* get_review_step_guidance, lines 499-502: the dict returned by this branch.
review_fallback_actions ==
    << "Continue review process as needed." >>

\* Variant of the fallback that carries no directive.
review_fallback_no_next(next_step) ==
    [actions |-> review_fallback_actions,
     next |-> ""]

review_fallback(next_step) ==
    [actions |-> review_fallback_actions,
     next |-> "Invoke step "
              \o ToString(next_step)
              \o " when ready."]

----------------------------------------------------------------------------
\* Variants of get_planning_step_guidance with one slip each.

\* The numbered steps are tested before the terminal check (the order the
\* review selector uses).
get_planning_step_guidance_numbered_first(step_number, total_steps) ==
    LET is_complete == step_number >= total_steps
        next_step == step_number + 1
        remaining == total_steps - step_number
    IN  IF step_number = 1 THEN planning_step_1(next_step)
        ELSE IF step_number = 2 THEN planning_step_2(next_step)
        ELSE IF step_number = 3 THEN planning_step_3
        ELSE IF step_number = 4 THEN planning_step_4(next_step)
        ELSE IF is_complete THEN planning_final_verification
        ELSE planning_steps_5_plus(next_step, remaining)

\* The terminal check is off by one: the step before the last is terminal.
get_planning_step_guidance_early_terminal(step_number, total_steps) ==
    LET is_complete == step_number + 1 >= total_steps
        next_step == step_number + 1
        remaining == total_steps - step_number
    IN  IF is_complete THEN planning_final_verification
        ELSE IF step_number = 1 THEN planning_step_1(next_step)
        ELSE IF step_number = 2 THEN planning_step_2(next_step)
        ELSE IF step_number = 3 THEN planning_step_3
        ELSE IF step_number = 4 THEN planning_step_4(next_step)
        ELSE planning_steps_5_plus(next_step, remaining)

\* remaining is counted from the next step instead of the current one.
get_planning_step_guidance_remaining_from_next(step_number, total_steps) ==
    LET is_complete == step_number >= total_steps
        next_step == step_number + 1
        remaining == total_steps - next_step
    IN  IF is_complete THEN planning_final_verification
        ELSE IF step_number = 1 THEN planning_step_1(next_step)
        ELSE IF step_number = 2 THEN planning_step_2(next_step)
        ELSE IF step_number = 3 THEN planning_step_3
        ELSE IF step_number = 4 THEN planning_step_4(next_step)
        ELSE planning_steps_5_plus(next_step, remaining)

----------------------------------------------------------------------------
\* get_planning_step_guidance (lines 20-325): the terminal check comes first,
\* then steps 1..4, then the "Steps 5+" result.
get_planning_step_guidance(step_number, total_steps) ==
    LET is_complete == step_number >= total_steps
        next_step == step_number + 1
        remaining == total_steps - step_number
    IN  IF is_complete THEN planning_final_verification
        ELSE IF step_number = 1 THEN planning_step_1(next_step)
        ELSE IF step_number = 2 THEN planning_step_2(next_step)
        ELSE IF step_number = 3 THEN planning_step_3
        ELSE IF step_number = 4 THEN planning_step_4(next_step)
        ELSE planning_steps_5_plus(next_step, remaining)

----------------------------------------------------------------------------
\* Variants of get_review_step_guidance with one slip each.

\* The terminal check is tested before the numbered steps (the order the
\* planning selector uses).
get_review_step_guidance_terminal_first(step_number, total_steps) ==
    LET is_complete == step_number >= total_steps
        next_step == step_number + 1
    IN  IF is_complete THEN review_complete
        ELSE IF step_number = 1 THEN review_step_1(next_step)
        ELSE IF step_number = 2 THEN review_step_2(next_step)
        ELSE IF step_number = 3 THEN review_step_3(next_step)
        ELSE IF step_number = 4 THEN review_step_4
        ELSE review_fallback(next_step)

\* The terminal check is strict: step_number = total_steps is not terminal.
get_review_step_guidance_strict_terminal(step_number, total_steps) ==
    LET is_complete == step_number > total_steps
        next_step == step_number + 1
    IN  IF step_number = 1 THEN review_step_1(next_step)
        ELSE IF step_number = 2 THEN review_step_2(next_step)
        ELSE IF step_number = 3 THEN review_step_3(next_step)
        ELSE IF step_number = 4 THEN review_step_4
        ELSE IF is_complete THEN review_complete
        ELSE review_fallback(next_step)

\* The step-4 branch is missing (a review of three delegations).
get_review_step_guidance_three_steps(step_number, total_steps) ==
    LET is_complete == step_number >= total_steps
        next_step == step_number + 1
    IN  IF step_number = 1 THEN review_step_1(next_step)
        ELSE IF step_number = 2 THEN review_step_2(next_step)
        ELSE IF step_number = 3 THEN review_step_3(next_step)
        ELSE IF is_complete THEN review_complete
        ELSE review_fallback(next_step)

\* get_review_step_guidance (lines 328-502): steps 1..4 come first, then the
\* terminal check, then the fallback.
get_review_step_guidance(step_number, total_steps) ==
    LET is_complete == step_number >= total_steps
        next_step == step_number + 1
    IN  IF step_number = 1 THEN review_step_1(next_step)
        ELSE IF step_number = 2 THEN review_step_2(next_step)
        ELSE IF step_number = 3 THEN review_step_3(next_step)
        ELSE IF step_number = 4 THEN review_step_4
        ELSE IF is_complete THEN review_complete
        ELSE review_fallback(next_step)

----------------------------------------------------------------------------
\* main (lines 505-573).

\* Variants of the range check: both must be out of range; 1 is out of range
\* for total_steps.
invalid_args_both(step_number, total_steps) ==
    step_number < 1 /\ total_steps < 1

invalid_args_total_one(step_number, total_steps) ==
    step_number < 1 \/ total_steps <= 1

\* Line 534: the range check on the two integers.
invalid_args(step_number, total_steps) ==
    step_number < 1 \/ total_steps < 1

\* Lines 539-544: the selector main calls for a phase, and the banner's label.
selector_name(phase) ==
    IF phase = "planning" THEN "get_planning_step_guidance"
    ELSE "get_review_step_guidance"

\* Variant of the selection that keeps a count of the earlier runs and
\* advances the step by it.
select_guidance_counts_runs(phase, step_number, total_steps) ==
    IF phase = "planning"
    THEN get_planning_step_guidance(step_number + Len(transcript), total_steps)
    ELSE get_review_step_guidance(step_number + Len(transcript), total_steps)

select_guidance(phase, step_number, total_steps) ==
    IF phase = "planning" THEN get_planning_step_guidance(step_number, total_steps)
    ELSE get_review_step_guidance(step_number, total_steps)

phase_label(phase) ==
    IF phase = "planning" THEN "PLANNING" ELSE "REVIEW"

\* Variant of the status line: complete only past the total.
status_line_strict(step_number, total_steps) ==
    LET is_complete == step_number > total_steps
    IN  "STATUS: " \o (IF is_complete THEN "phase_complete" ELSE "in_progress")

\* Lines 546 and 552: main's own is_complete and the status line.
status_line(step_number, total_steps) ==
    LET is_complete == step_number >= total_steps
    IN  "STATUS: " \o (IF is_complete THEN "phase_complete" ELSE "in_progress")

\* Lines 558-568: the action block; nothing is printed for an empty list.
actions_block(step_number, total_steps, actions) ==
    LET is_complete == step_number >= total_steps
    IN  IF actions # <<>>
        THEN <<IF is_complete THEN "FINAL CHECKLIST:" ELSE "REQUIRED ACTIONS:">>
             \o [i \in 1..Len(actions) |->
                    IF actions[i] # "" THEN "  " \o actions[i] ELSE ""]
             \o <<"">>
        ELSE <<>>

\* Variant of the report that prints a placeholder for empty thoughts.
report_placeholder_thoughts(phase, step_number, total_steps, thoughts, g) ==
    << Repeat("=", 80),
       "PLANNER - " \o phase_label(phase) \o " PHASE - Step " \o ToString(step_number)
           \o " of " \o ToString(total_steps),
       Repeat("=", 80),
       "",
       status_line(step_number, total_steps),
       "",
       "YOUR THOUGHTS:",
       IF thoughts = "" THEN "(none)" ELSE thoughts,
       "" >>
    \o actions_block(step_number, total_steps, g.actions)
    \o << "NEXT:",
          g.next,
          "",
          Repeat("=", 80) >>

\* Lines 548-573: the print calls of one report, one element per call.
report(phase, step_number, total_steps, thoughts, g) ==
    << Repeat("=", 80),
       "PLANNER - " \o phase_label(phase) \o " PHASE - Step " \o ToString(step_number)
           \o " of " \o ToString(total_steps),
       Repeat("=", 80),
       "",
       status_line(step_number, total_steps),
       "",
       "YOUR THOUGHTS:",
       thoughts,
       "" >>
    \o actions_block(step_number, total_steps, g.actions)
    \o << "NEXT:",
          g.next,
          "",
          Repeat("=", 80) >>

\* One run of main() on the parsed arguments.  guidance is main's local
\* variable: <<>> while unassigned, <<dict>> once a selector has returned.
\* selector_calls records the selector calls made, stdout and stderr the
\* print calls, exit_status the process's exit code (1 from sys.exit(1) on
\* line 536, 0 when main returns).  transcript is what the caller has seen of
\* the runs made so far: main adds the finished run to it.
main ==
    /\ pc = "start"
    /\ IF invalid_args(args.step_number, args.total_steps)
       THEN /\ stderr' = Append(stderr, "Error: step-number and total-steps must be >= 1")
            /\ exit_status' = 1
            /\ UNCHANGED <<guidance, selector_calls, stdout>>
       ELSE LET g == select_guidance(args.phase, args.step_number, args.total_steps)
            IN  /\ guidance' = <<g>>
                /\ selector_calls' = Append(selector_calls, selector_name(args.phase))
                /\ stdout' = stdout \o report(args.phase, args.step_number,
                                              args.total_steps, args.thoughts, g)
                /\ exit_status' = 0
                /\ UNCHANGED stderr
    /\ pc' = "exited"
    /\ UNCHANGED args
    /\ transcript' = Append(transcript,
                            [args |-> args, exit_status |-> exit_status',
                             guidance |-> guidance', stdout |-> stdout',
                             stderr |-> stderr'])

\* Lines 525-532 and 576-577: a new process is started with a command line;
\* argparse fills args.  Nothing of an earlier run is kept by the program.
start_process(phase, step_number, total_steps, thoughts) ==
    /\ pc = "exited"
    /\ args' = [phase |-> phase, step_number |-> step_number,
                total_steps |-> total_steps, thoughts |-> thoughts]
    /\ pc' = "start"
    /\ guidance' = <<>>
    /\ selector_calls' = <<>>
    /\ stdout' = <<>>
    /\ stderr' = <<>>
    /\ exit_status' = 0

\* A caller that keeps nothing of the earlier runs starts the program on any
\* command line.
parse_args(phase, step_number, total_steps, thoughts) ==
    /\ start_process(phase, step_number, total_steps, thoughts)
    /\ transcript' = <<>>

\* A process whose arguments have just been parsed (line 532).
Init ==
    /\ args \in [phase : Phases, step_number : StepNumbers,
                 total_steps : TotalSteps, thoughts : Thoughts]
    /\ pc = "start"
    /\ guidance = <<>>
    /\ selector_calls = <<>>
    /\ stdout = <<>>
    /\ stderr = <<>>
    /\ exit_status = 0
    /\ transcript = <<>>

Next ==
    \/ main
    \/ \E phase \in Phases, step_number \in StepNumbers,
          total_steps \in TotalSteps, thoughts \in Thoughts :
            parse_args(phase, step_number, total_steps, thoughts)

\* A caller that keeps the reports of the earlier runs and runs the program
\* again on any command line of a small set, MaxRuns times in all.
ReplaySteps == {0, 2, 5}
ReplayTotals == {4}
ReplayThoughts == {"", "  a\tb \"q\" \\ <x>\nline 2  "}

reinvoke(phase, step_number, total_steps, thoughts) ==
    /\ Len(transcript) < MaxRuns
    /\ start_process(phase, step_number, total_steps, thoughts)
    /\ UNCHANGED transcript

InitReplay ==
    /\ Init
    /\ args.step_number \in ReplaySteps
    /\ args.total_steps \in ReplayTotals
    /\ args.thoughts \in ReplayThoughts

NextReplay ==
    \/ main
    \/ \E phase \in Phases, step_number \in ReplaySteps,
          total_steps \in ReplayTotals, thoughts \in ReplayThoughts :
            reinvoke(phase, step_number, total_steps, thoughts)

SpecReplay == InitReplay /\ [][NextReplay]_vars

\* A planning caller: it starts at step 1 with some total_steps and, after
\* every run, runs the program again with step_number + 1 (next_step, line
\* 23, the step the next texts name), the other arguments unchanged.  It
\* goes on one step past the largest total.
invoke_next_step ==
    /\ args.step_number <= MaxTotal
    /\ start_process(args.phase, args.step_number + 1, args.total_steps, args.thoughts)
    /\ UNCHANGED transcript

InitPlanningCaller ==
    /\ Init
    /\ args.phase = "planning"
    /\ args.step_number = 1
    /\ args.total_steps >= 1

NextPlanningCaller ==
    \/ main
    \/ invoke_next_step

\* main runs to its end once started, and this caller always re-invokes.
SpecPlanningCaller ==
    /\ InitPlanningCaller
    /\ [][NextPlanningCaller]_vars
    /\ WF_vars(main)
    /\ WF_vars(invoke_next_step)

\* The steps a review next text tells the caller to invoke: "invoke step
\* N:" (lines 357, 398, 429), "Invoke step 5 to complete review" and
\* "restart review from step 1:" (lines 468-469), "Invoke step N when
\* ready." (line 501).
DirectedSteps(next) ==
    {n \in 1..(MaxStep + 1) :
        \/ Contains(next, "invoke step " \o ToString(n) \o ":\n")
        \/ Contains(next, "Invoke step " \o ToString(n) \o " to complete review")
        \/ Contains(next, "restart review from step " \o ToString(n) \o ":")
        \/ next = "Invoke step " \o ToString(n) \o " when ready."}

RestartsMade ==
    Cardinality({i \in 1..Len(transcript) : transcript[i].args.step_number = 1}) - 1

\* A review caller: it starts at step 1 of ReviewTotalSteps and, after every
\* run, invokes a step the printed next text names; after step 4 that is
\* step 5 (PASS, PASS_WITH_CONCERNS) or step 1 again (NEEDS_CHANGES).
follow_next(n) ==
    /\ guidance # <<>>
    /\ n \in DirectedSteps(guidance[1].next)
    /\ n = 1 => RestartsMade < MaxRestarts
    /\ start_process(args.phase, n, args.total_steps, args.thoughts)
    /\ UNCHANGED transcript

InitReviewCaller ==
    /\ Init
    /\ args.phase = "review"
    /\ args.step_number = 1
    /\ args.total_steps = ReviewTotalSteps

NextReviewCaller ==
    \/ main
    \/ \E n \in 1..(MaxStep + 1) : follow_next(n)

SpecReviewCaller == InitReviewCaller /\ [][NextReviewCaller]_vars

Spec == Init /\ [][Next]_vars

----------------------------------------------------------------------------
\* The run the properties speak about: main has run on valid arguments.

arg_step == args.step_number
arg_total == args.total_steps

ValidRun(phase) ==
    /\ pc = "exited"
    /\ args.phase = phase
    /\ arg_step >= 1
    /\ arg_total >= 1

\* The dict main received from the selector.
result == guidance[1]

----------------------------------------------------------------------------
\* C1: in the planning phase, whenever step_number >= total_steps >= 1 the
\* selector returns the final-verification dict, whose next text begins
\* "PLANNING PHASE COMPLETE."; it is the same dict for every such
\* step_number, and at step 1 of 1 it is not the step-1 checklist.
C1_PlanningTerminal ==
    (ValidRun("planning") /\ arg_step >= arg_total) =>
        /\ guidance = <<planning_final_verification>>
        /\ StartsWith(result.next, "PLANNING PHASE COMPLETE.")
        /\ result.actions[1] = "FINAL VERIFICATION -- complete each section before writing."
        /\ result # planning_step_1(arg_step + 1)
        /\ \A i \in 1..Len(result.actions) : result.actions[i] # "<step_1_checklist>"

C1_Witness ==
    /\ ValidRun("planning")
    /\ arg_step = 1
    /\ arg_total = 1
    /\ StartsWith(result.next, "PLANNING PHASE COMPLETE.")

\* Whether a dict's action list holds the given line.
HasAction(g, line) ==
    \E i \in 1..Len(g.actions) : g.actions[i] = line

----------------------------------------------------------------------------
\* C2: in the review phase, for step_number in 1..4 and any total_steps >= 1
\* (also when step_number >= total_steps) the selector returns the
\* delegation of that step: technical-writer, contract-specifier,
\* test-specifier, quality-reviewer; step 1 of 1 is the step-1 delegation,
\* not the completion dict.
ReviewDelegate(s) ==
    CASE s = 1 -> "technical-writer"
      [] s = 2 -> "contract-specifier"
      [] s = 3 -> "test-specifier"
      [] s = 4 -> "quality-reviewer"

ReviewNumbered(s) ==
    CASE s = 1 -> review_step_1(s + 1)
      [] s = 2 -> review_step_2(s + 1)
      [] s = 3 -> review_step_3(s + 1)
      [] s = 4 -> review_step_4

C2_ReviewNumberedFirst ==
    (ValidRun("review") /\ arg_step \in 1..4) =>
        /\ guidance = <<ReviewNumbered(arg_step)>>
        /\ HasAction(result, "DELEGATE to @agent-" \o ReviewDelegate(arg_step) \o ":")
        /\ \A s \in (1..4) \ {arg_step} :
              ~HasAction(result, "DELEGATE to @agent-" \o ReviewDelegate(s) \o ":")
        /\ result # review_complete
        /\ ~StartsWith(result.next, "PLAN APPROVED")

C2_Witness ==
    /\ ValidRun("review")
    /\ arg_step = 1
    /\ arg_total = 1
    /\ HasAction(result, "DELEGATE to @agent-technical-writer:")

----------------------------------------------------------------------------
\* C3: in the planning phase, for step_number in 1..4 below total_steps the
\* selector returns the dict of that numbered step and never the
\* final-verification dict; for steps 1, 2 and 4 the next text names step
\* step_number + 1.
PlanningNumbered(s) ==
    CASE s = 1 -> planning_step_1(s + 1)
      [] s = 2 -> planning_step_2(s + 1)
      [] s = 3 -> planning_step_3
      [] s = 4 -> planning_step_4(s + 1)

PlanningTag(s) ==
    CASE s = 1 -> "<step_1_checklist>"
      [] s = 2 -> "<step_2_evaluate_first>"
      [] s = 3 -> "<step_3_risks>"
      [] s = 4 -> "<contract_specification_step>"

C3_PlanningNumbered ==
    (ValidRun("planning") /\ arg_step \in 1..4 /\ arg_step < arg_total) =>
        /\ guidance = <<PlanningNumbered(arg_step)>>
        /\ HasAction(result, PlanningTag(arg_step))
        /\ result # planning_final_verification
        /\ ~StartsWith(result.next, "PLANNING PHASE COMPLETE.")
        /\ arg_step \in {1, 2, 4} =>
              StartsWith(result.next, "Invoke step " \o ToString(arg_step + 1) \o " with ")

C3_Witness ==
    /\ ValidRun("planning")
    /\ arg_step = 4
    /\ arg_total = 5
    /\ StartsWith(result.next, "Invoke step 5 with contracts defined")

----------------------------------------------------------------------------
\* C4: in the planning phase, for 5 <= step_number < total_steps the
\* selector returns the "steps 5+" dict; its next text names step
\* step_number + 1 and the remaining count total_steps - step_number, which
\* is at least 1.
C4_PlanningStepsFivePlus ==
    (ValidRun("planning") /\ arg_step >= 5 /\ arg_step < arg_total) =>
        /\ HasAction(result, "<backtrack_check>")
        /\ result.actions = planning_steps_5_plus_actions
        /\ result.next = "Invoke step " \o ToString(arg_step + 1) \o ". "
                          \o ToString(arg_total - arg_step)
                          \o " step(s) remaining until completion."
                          \o " (Or invoke earlier step if backtracking.)"
        /\ arg_total - arg_step >= 1

C4_Witness ==
    /\ ValidRun("planning")
    /\ arg_step = 5
    /\ arg_total = 7
    /\ StartsWith(result.next, "Invoke step 6. 2 step(s) remaining")

----------------------------------------------------------------------------
\* C5: in the review phase, whenever step_number >= total_steps and
\* step_number > 4 the selector returns the completion dict, whose next text
\* announces "PLAN APPROVED"; no input with step_number <= 4 returns it.
C5_ReviewTerminal ==
    /\ (ValidRun("review") /\ arg_step >= arg_total /\ arg_step > 4) =>
          /\ guidance = <<review_complete>>
          /\ HasAction(result, "<review_complete_verification>")
          /\ StartsWith(result.next, "PLAN APPROVED")
    /\ (ValidRun("review") /\ arg_step <= 4) =>
          /\ result # review_complete
          /\ ~HasAction(result, "<review_complete_verification>")
          /\ ~Contains(result.next, "PLAN APPROVED")

C5_Witness ==
    /\ ValidRun("review")
    /\ arg_step = 5
    /\ arg_total = 4
    /\ StartsWith(result.next, "PLAN APPROVED")

----------------------------------------------------------------------------
\* C6: the review selector returns the "Continue review process as needed."
\* fallback exactly when 4 < step_number < total_steps; with total_steps in
\* 1..4 it is returned for no step_number >= 1.
IsReviewFallback(g) ==
    g.actions = <<"Continue review process as needed.">>

C6_ReviewFallback ==
    ValidRun("review") =>
        /\ IsReviewFallback(result) <=> (arg_step > 4 /\ arg_step < arg_total)
        /\ arg_total \in 1..4 => ~IsReviewFallback(result)
        /\ IsReviewFallback(result) =>
              result.next = "Invoke step " \o ToString(arg_step + 1) \o " when ready."

C6_Witness ==
    /\ ValidRun("review")
    /\ arg_step = 5
    /\ arg_total = 6
    /\ IsReviewFallback(result)

----------------------------------------------------------------------------
\* C7: when step_number < 1 or total_steps < 1, in either phase, the run
\* writes an error to standard error, exits with a non-zero status, calls no
\* selector and writes nothing to standard output.
C7_InvalidInput ==
    (pc = "exited" /\ (arg_step < 1 \/ arg_total < 1)) =>
        /\ stderr # <<>>
        /\ StartsWith(stderr[1], "Error:")
        /\ exit_status # 0
        /\ selector_calls = <<>>
        /\ guidance = <<>>
        /\ stdout = <<>>

C7_Witness ==
    /\ pc = "exited"
    /\ args.phase = "review"
    /\ arg_step = 3
    /\ arg_total = 0
    /\ exit_status = 1
    /\ Len(stderr) = 1

----------------------------------------------------------------------------
\* C8: for either phase and every step_number >= 1, total_steps >= 1 the
\* selector returns exactly one of its defined cases, and the run prints
\* one report and exits with status zero.
PlanningCases(s, t) ==
    { planning_final_verification, planning_step_1(s + 1), planning_step_2(s + 1),
      planning_step_3, planning_step_4(s + 1), planning_steps_5_plus(s + 1, t - s) }

ReviewCases(s, t) ==
    { review_step_1(s + 1), review_step_2(s + 1), review_step_3(s + 1),
      review_step_4, review_complete, review_fallback(s + 1) }

CasesOf(phase, s, t) ==
    IF phase = "planning" THEN PlanningCases(s, t) ELSE ReviewCases(s, t)

\* The first action line of each case.
CaseHeads ==
    { planning_final_verification_actions[1], planning_step_1_actions[1],
      planning_step_2_actions[1], planning_step_3_actions[1],
      planning_step_4_actions[1], planning_steps_5_plus_actions[1],
      review_step_1_actions[1], review_step_2_actions[1], review_step_3_actions[1],
      review_step_4_actions[1], review_complete_actions[1], review_fallback_actions[1] }

LinesWith(prefix) ==
    {i \in 1..Len(stdout) : StartsWith(stdout[i], prefix)}

C8_TotalSelectors ==
    /\ pc = "start" => ENABLED main
    /\ \A phase \in Phases :
          ValidRun(phase) =>
              /\ Len(guidance) = 1
              /\ Cardinality({c \in CasesOf(phase, arg_step, arg_total) : c = result}) = 1
              /\ Cardinality({h \in CaseHeads : HasAction(result, h)}) = 1
              /\ selector_calls = <<selector_name(phase)>>
              /\ exit_status = 0
              /\ stderr = <<>>
              /\ Cardinality(LinesWith("PLANNER - ")) = 1
              /\ Cardinality(LinesWith("STATUS: ")) = 1
              /\ Cardinality(LinesWith("NEXT:")) = 1
              /\ stdout[Len(stdout)] = Repeat("=", 80)

C8_Witness ==
    /\ ValidRun("planning")
    /\ arg_step = 7
    /\ arg_total = 2
    /\ exit_status = 0
    /\ Cardinality(LinesWith("PLANNER - PLANNING PHASE - Step 7 of 2")) = 1

----------------------------------------------------------------------------
\* C9: for either phase and every step_number >= 1, total_steps >= 1 the
\* returned dict has a non-empty next text, the terminal cases of both
\* phases and the review fallback included.
C9_NextNonEmpty ==
    \A phase \in Phases :
        ValidRun(phase) =>
            /\ result.next # ""
            /\ Len(result.next) > 0

C9_Witness ==
    /\ ValidRun("review")
    /\ arg_step = 6
    /\ arg_total = 7
    /\ IsReviewFallback(result)
    /\ result.next = "Invoke step 7 when ready."

----------------------------------------------------------------------------
\* C10: for every valid run the report's status line says phase_complete
\* exactly when step_number >= total_steps and in_progress otherwise,
\* whatever the phase and the selected case; review step 4 of 4 reports
\* phase_complete together with the quality-reviewer delegation.
StatusLines ==
    {stdout[i] : i \in LinesWith("STATUS: ")}

C10_StatusMarker ==
    \A phase \in Phases :
        ValidRun(phase) =>
            /\ arg_step >= arg_total => StatusLines = {"STATUS: phase_complete"}
            /\ arg_step < arg_total => StatusLines = {"STATUS: in_progress"}
            /\ stdout[5] \in StatusLines

C10_Witness ==
    /\ ValidRun("review")
    /\ arg_step = 4
    /\ arg_total = 4
    /\ stdout[5] = "STATUS: phase_complete"
    /\ HasAction(result, "DELEGATE to @agent-quality-reviewer:")
    /\ \E i \in 1..Len(stdout) : stdout[i] = "  DELEGATE to @agent-quality-reviewer:"

----------------------------------------------------------------------------
\* C15: in the planning phase the printed status and the selected case
\* agree: for every step_number >= 1, total_steps >= 1 the report shows
\* phase_complete under the "FINAL CHECKLIST:" header exactly when the
\* selector returned the final-verification dict, and in_progress under the
\* "REQUIRED ACTIONS:" header otherwise.
HeaderLines ==
    {stdout[i] : i \in {j \in 1..Len(stdout) :
                          stdout[j] \in {"FINAL CHECKLIST:", "REQUIRED ACTIONS:"}}}

IsPlanningTerminal(g) ==
    /\ StartsWith(g.next, "PLANNING PHASE COMPLETE.")
    /\ g.actions = planning_final_verification_actions

C15_PlanningStatusAgrees ==
    ValidRun("planning") =>
        /\ IsPlanningTerminal(result) <=>
              (StatusLines = {"STATUS: phase_complete"} /\ HeaderLines = {"FINAL CHECKLIST:"})
        /\ ~IsPlanningTerminal(result) <=>
              (StatusLines = {"STATUS: in_progress"} /\ HeaderLines = {"REQUIRED ACTIONS:"})
        /\ stdout[10] \in HeaderLines

C15_Witness ==
    /\ ValidRun("planning")
    /\ arg_step = 4
    /\ arg_total = 4
    /\ IsPlanningTerminal(result)
    /\ stdout[5] = "STATUS: phase_complete"
    /\ stdout[10] = "FINAL CHECKLIST:"

----------------------------------------------------------------------------
\* What a report shows: its status lines, its action lines (header to the
\* blank line before "NEXT:") and the text printed after "NEXT:".
StatusOf(out) ==
    {out[i] : i \in {j \in 1..Len(out) : StartsWith(out[j], "STATUS: ")}}

NextIndex(out) ==
    CHOOSE i \in 1..Len(out) : out[i] = "NEXT:" /\ i = Len(out) - 3

ActionsOf(out) ==
    SubSeq(out, 10, NextIndex(out) - 1)

NextOf(out) ==
    out[NextIndex(out) + 1]

ValidEntry(e) ==
    e.args.step_number >= 1 /\ e.args.total_steps >= 1

SameButThoughts(a, b) ==
    /\ a.phase = b.phase
    /\ a.step_number = b.step_number
    /\ a.total_steps = b.total_steps

----------------------------------------------------------------------------
\* C11: the notes are opaque: every report holds the --thoughts string
\* unchanged, and two valid runs that differ only in the notes show the same
\* status, the same action list and the same next text.
C11_ThoughtsOpaque ==
    \A i \in 1..Len(transcript) :
        ValidEntry(transcript[i]) =>
            /\ transcript[i].stdout[7] = "YOUR THOUGHTS:"
            /\ transcript[i].stdout[8] = transcript[i].args.thoughts
            /\ \A j \in 1..Len(transcript) :
                  (ValidEntry(transcript[j])
                     /\ SameButThoughts(transcript[i].args, transcript[j].args)) =>
                      /\ StatusOf(transcript[i].stdout) = StatusOf(transcript[j].stdout)
                      /\ ActionsOf(transcript[i].stdout) = ActionsOf(transcript[j].stdout)
                      /\ NextOf(transcript[i].stdout) = NextOf(transcript[j].stdout)
                      /\ transcript[i].guidance = transcript[j].guidance

C11_Witness ==
    /\ Len(transcript) = 2
    /\ transcript[1].args = [phase |-> "planning", step_number |-> 2, total_steps |-> 4,
                             thoughts |-> ""]
    /\ transcript[2].args = [phase |-> "planning", step_number |-> 2, total_steps |-> 4,
                             thoughts |-> "  a\tb \"q\" \\ <x>\nline 2  "]
    /\ transcript[2].stdout[8] = "  a\tb \"q\" \\ <x>\nline 2  "
    /\ transcript[1].stdout[8] = ""
    /\ NextOf(transcript[1].stdout) = NextOf(transcript[2].stdout)

----------------------------------------------------------------------------
\* C12: a run is stateless: after any earlier runs, a run on the command
\* line of the first run exits with the same status and shows the same
\* status, actions and next text as the first run did.
C12_Stateless ==
    \A i \in 1..Len(transcript) :
        transcript[i].args = transcript[1].args =>
            /\ transcript[i].exit_status = transcript[1].exit_status
            /\ transcript[i].guidance = transcript[1].guidance
            /\ transcript[i].stdout = transcript[1].stdout
            /\ transcript[i].stderr = transcript[1].stderr
            /\ ValidEntry(transcript[i]) =>
                  /\ StatusOf(transcript[i].stdout) = StatusOf(transcript[1].stdout)
                  /\ ActionsOf(transcript[i].stdout) = ActionsOf(transcript[1].stdout)
                  /\ NextOf(transcript[i].stdout) = NextOf(transcript[1].stdout)

C12_Witness ==
    /\ Len(transcript) = 3
    /\ transcript[1].args = [phase |-> "review", step_number |-> 5, total_steps |-> 4,
                             thoughts |-> ""]
    /\ transcript[2].args = [phase |-> "planning", step_number |-> 2, total_steps |-> 4,
                             thoughts |-> ""]
    /\ transcript[3].args = transcript[1].args
    /\ transcript[3].stdout = transcript[1].stdout
    /\ StartsWith(NextOf(transcript[3].stdout), "PLAN APPROVED")

----------------------------------------------------------------------------
\* C13: a planning caller that starts at step 1 with a fixed total_steps t
\* and always re-invokes with step_number + 1 eventually receives the
\* final-verification dict, for the first time at step t, after t - 1 other
\* dicts (the numbered ones for steps 1..min(4, t-1), then "steps 5+");
\* over steps 5..t-1 the printed remaining count goes down by 1 per run,
\* ending at 1.
IsStepsFivePlus(g) ==
    g.actions = planning_steps_5_plus_actions

\* The count printed in a "steps 5+" next text.
RemainingOf(g) ==
    CHOOSE r \in 0..(MaxTotal + 1) :
        Contains(g.next, ". " \o ToString(r) \o " step(s) remaining until completion.")

Received(i) == transcript[i].guidance[1]

C13_Sequence ==
    \A i \in 1..Len(transcript) :
        LET t == transcript[1].args.total_steps
        IN  /\ transcript[i].args.step_number = i
            /\ transcript[i].args.total_steps = t
            /\ transcript[i].exit_status = 0
            /\ IsPlanningTerminal(Received(i)) <=> i >= t
            /\ (i < t /\ i <= 4) => Received(i) = PlanningNumbered(i)
            /\ (i < t /\ i >= 5) =>
                  /\ IsStepsFivePlus(Received(i))
                  /\ StartsWith(Received(i).next, "Invoke step " \o ToString(i + 1) \o ". ")
                  /\ RemainingOf(Received(i)) = t - i
                  /\ i > 5 => RemainingOf(Received(i - 1)) - RemainingOf(Received(i)) = 1
                  /\ i = t - 1 => RemainingOf(Received(i)) = 1

C13_TerminalReceived ==
    /\ transcript # <<>>
    /\ IsPlanningTerminal(Received(Len(transcript)))
    /\ Len(transcript) >= transcript[1].args.total_steps

C13_PlanningCallerReachesTerminal ==
    /\ []C13_Sequence
    /\ <>C13_TerminalReceived

C13_Witness ==
    /\ Len(transcript) = 7
    /\ transcript[1].args.total_steps = 7
    /\ IsPlanningTerminal(Received(7))
    /\ \A i \in 1..6 : ~IsPlanningTerminal(Received(i))
    /\ RemainingOf(Received(5)) = 2
    /\ RemainingOf(Received(6)) = 1

----------------------------------------------------------------------------
\* C14: a review caller with total_steps = 4 that starts at step 1 and
\* follows the next texts receives the technical-writer,
\* contract-specifier, test-specifier and quality-reviewer delegations in
\* that order at steps 1..4, receives "PLAN APPROVED" only at step 5 and
\* only right after the quality-reviewer delegation, never receives the
\* fallback, and after a restart at step 1 receives the same sequence again.
IsReviewComplete(g) ==
    StartsWith(g.next, "PLAN APPROVED")

StepAt(i) == transcript[i].args.step_number

C14_ReviewSequence ==
    \A i \in 1..Len(transcript) :
        /\ transcript[i].args.total_steps = 4
        /\ transcript[i].exit_status = 0
        /\ StepAt(i) \in 1..5
        /\ StepAt(i) \in 1..4 =>
              /\ Received(i) = ReviewNumbered(StepAt(i))
              /\ HasAction(Received(i), "DELEGATE to @agent-" \o ReviewDelegate(StepAt(i)) \o ":")
        /\ IsReviewComplete(Received(i)) <=> StepAt(i) = 5
        /\ ~IsReviewFallback(Received(i))
        /\ i = 1 => StepAt(i) = 1
        /\ i > 1 =>
              \/ StepAt(i) = StepAt(i - 1) + 1
              \/ StepAt(i) = 1 /\ StepAt(i - 1) = 4
        /\ IsReviewComplete(Received(i)) =>
              /\ i > 4
              /\ HasAction(Received(i - 1), "DELEGATE to @agent-quality-reviewer:")
        /\ \A j \in 1..Len(transcript) :
              StepAt(j) = StepAt(i) => Received(j) = Received(i)

C14_Witness ==
    /\ Len(transcript) = 9
    /\ [i \in 1..9 |-> StepAt(i)] = <<1, 2, 3, 4, 1, 2, 3, 4, 5>>
    /\ HasAction(Received(5), "DELEGATE to @agent-technical-writer:")
    /\ HasAction(Received(8), "DELEGATE to @agent-quality-reviewer:")
    /\ IsReviewComplete(Received(9))

====
